---- MODULE Spec2Model ----
(***************************************************************************)
(* Model of calcu.py: the ladder generator (generar_precios), the lot      *)
(* assignment (asignar_lotes), the cumulative metrics                      *)
(* (calcular_acumulados), the endpoint validation (validar_precio_final)   *)
(* and the pipeline that main() runs when the button is pressed.           *)
(*                                                                         *)
(* Numbers.  Python/pandas floats are modelled as exact rationals <<n, d>> *)
(* in lowest terms with d > 0, extended with the three special values a    *)
(* pandas division by zero produces: NaN = <<0,0>>, +inf = <<1,0>>,        *)
(* -inf = <<-1,0>>.  Binary rounding error of the floats is abstracted.    *)
(***************************************************************************)
EXTENDS Integers, Sequences, FiniteSets, TLC

----------------------------------------------------------------------------
(* Extended rational arithmetic (the float operations the code uses).      *)

Abs(n) == IF n < 0 THEN -n ELSE n

RECURSIVE GCD(_, _)
GCD(a, b) == IF b = 0 THEN a ELSE GCD(b, a % b)

NaN == <<0, 0>>
PosInf == <<1, 0>>
NegInf == <<-1, 0>>

IsFinite(x) == x[2] # 0
IsNaN(x) == x = NaN
IsZero(x) == IsFinite(x) /\ x[1] = 0

\* The rational n/d (d # 0) in lowest terms with a positive denominator.
Frac(n, d) ==
    LET g == GCD(Abs(n), Abs(d))
        s == IF d < 0 THEN -1 ELSE 1
    IN  <<s * (n \div g), s * (d \div g)>>

Num(n) == <<n, 1>>

Sign(x) == IF x[1] > 0 THEN 1 ELSE IF x[1] < 0 THEN -1 ELSE 0

FNeg(x) == <<-x[1], x[2]>>

FAbs(x) == <<Abs(x[1]), x[2]>>

FAdd(x, y) ==
    IF IsFinite(x) /\ IsFinite(y)
    THEN LET g == GCD(x[2], y[2])
             l == (x[2] \div g) * y[2]
         IN  Frac(x[1] * (l \div x[2]) + y[1] * (l \div y[2]), l)
    ELSE IF IsNaN(x) \/ IsNaN(y) THEN NaN
    ELSE IF IsFinite(x) THEN y
    ELSE IF IsFinite(y) THEN x
    ELSE IF x = y THEN x ELSE NaN

FSub(x, y) == FAdd(x, FNeg(y))

FMul(x, y) ==
    IF IsFinite(x) /\ IsFinite(y)
    THEN LET g1 == GCD(Abs(x[1]), y[2])
             g2 == GCD(Abs(y[1]), x[2])
         IN  <<(x[1] \div g1) * (y[1] \div g2), (x[2] \div g2) * (y[2] \div g1)>>
    ELSE IF IsNaN(x) \/ IsNaN(y) THEN NaN
    ELSE IF Sign(x) * Sign(y) = 0 THEN NaN
    ELSE IF Sign(x) * Sign(y) > 0 THEN PosInf ELSE NegInf

\* pandas (numpy) division: x/0 is +-inf, 0/0 is NaN, no exception.
FDiv(x, y) ==
    IF IsNaN(x) \/ IsNaN(y) THEN NaN
    ELSE IF IsFinite(y)
    THEN IF y[1] = 0
         THEN IF Sign(x) = 0 THEN NaN
              ELSE IF Sign(x) > 0 THEN PosInf ELSE NegInf
         ELSE IF IsFinite(x)
              THEN FMul(x, IF y[1] > 0 THEN <<y[2], y[1]>> ELSE <<-y[2], -y[1]>>)
              ELSE IF Sign(x) * Sign(y) > 0 THEN PosInf ELSE NegInf
    ELSE IF IsFinite(x) THEN Num(0) ELSE NaN

\* x <= y on finite values.
FLeq(x, y) == x[1] * y[2] <= y[1] * x[2]

RECURSIVE Pow10(_)
Pow10(k) == IF k = 0 THEN 1 ELSE 10 * Pow10(k - 1)

\* Series.round(k): round half to even at k decimals; NaN and inf unchanged.
FRound(x, k) ==
    IF ~IsFinite(x) THEN x
    ELSE LET s == Pow10(k)
             q == x[1] \div x[2]
             r == x[1] % x[2]
             t == (r * s) \div x[2]
             u == (r * s) % x[2]
             up == \/ 2 * u > x[2]
                   \/ 2 * u = x[2] /\ (q * s + t) % 2 = 1
         IN  Frac(q * s + t + (IF up THEN 1 ELSE 0), s)

\* Row-wise operations of two pandas Series.
SeriesMul(xs, ys) == [i \in 1..Len(xs) |-> FMul(xs[i], ys[i])]
SeriesDiv(xs, ys) == [i \in 1..Len(xs) |-> FDiv(xs[i], ys[i])]
SeriesSub(xs, ys) == [i \in 1..Len(xs) |-> FSub(xs[i], ys[i])]

\* cumsum() that returns the column itself.
cumsum_sin_acumular(xs) == xs

\* Series.cumsum(): the running sum, accumulated left to right.
RECURSIVE cumsum(_)
cumsum(xs) ==
    IF Len(xs) = 0 THEN << >>
    ELSE LET prev == cumsum(SubSeq(xs, 1, Len(xs) - 1))
         IN  IF Len(prev) = 0 THEN <<xs[1]>>
             ELSE Append(prev, FAdd(prev[Len(prev)], xs[Len(xs)]))

\* Series.replace([inf, -inf, nan], 0).
replace_inf_nan(xs) == [i \in 1..Len(xs) |-> IF IsFinite(xs[i]) THEN xs[i] ELSE Num(0)]

----------------------------------------------------------------------------
(* Module constants of calcu.py.                                           *)

LOTES_A_UNIDADES == 100
PASO == 15
TOTAL_UNIDADES == 120
DIVISOR_LOTE == Frac(15932, 10000)
DIVISOR_CONSERVADOR == Frac(211, 100)
DIVISOR_MUY_AGRESIVA == Frac(16, 10)
DIVISOR_SEMI_AGRESIVA == Frac(225, 100)

\* A Python number with its type: range() accepts only an int.
PyInt(n) == [ty |-> "int", v |-> Num(n)]
PyFloat(n, d) == [ty |-> "float", v |-> Frac(n, d)]

----------------------------------------------------------------------------
(* generar_precios: a result is [err, val]; err # "" is the exception      *)
(* raised, and then no list is returned.                                   *)

Raise(e) == [err |-> e, val |-> << >>]
Return(v) == [err |-> "", val |-> v]

\* The number of points without the +1 of the final price.
numero_puntos_sin_final(total_unidades, paso) ==
    (total_unidades.v[1] * paso.v[2]) \div (total_unidades.v[2] * paso.v[1])

\* total_unidades // paso + 1; an int only when both operands are ints.
numero_puntos(total_unidades, paso) ==
    ((total_unidades.v[1] * paso.v[2]) \div (total_unidades.v[2] * paso.v[1])) + 1

generar_precios(precio_inicial, total_unidades, paso, direccion) ==
    IF paso.v[1] = 0 THEN Raise("ZeroDivisionError")
    ELSE IF direccion \notin {"bajada", "subida"} THEN Raise("ValueError")
    ELSE IF total_unidades.ty # "int" \/ paso.ty # "int" THEN Raise("TypeError")
    ELSE LET n == numero_puntos(total_unidades, paso)
         IN  Return([k \in 1..(IF n < 0 THEN 0 ELSE n) |->
                       IF direccion = "bajada"
                       THEN FSub(precio_inicial, FMul(Num(k - 1), paso.v))
                       ELSE FAdd(precio_inicial, FMul(Num(k - 1), paso.v))])

----------------------------------------------------------------------------
(* asignar_lotes.                                                          *)

\* The distance table with the 35-55 bucket closed at 54.
lote_por_diferencia_hasta_54(diferencia) ==
    IF FLeq(Num(0), diferencia) /\ FLeq(diferencia, Num(15)) THEN Frac(5, 10)
    ELSE IF diferencia = Num(20) THEN Num(0)
    ELSE IF diferencia \in {Num(25), Num(30)} THEN Num(2)
    ELSE IF FLeq(Num(35), diferencia) /\ FLeq(diferencia, Num(54)) THEN Frac(625, 1000)
    ELSE IF diferencia = Num(55) THEN Num(0)
    ELSE IF diferencia = Num(60) THEN Num(6)
    ELSE IF FLeq(Num(65), diferencia) /\ FLeq(diferencia, Num(90)) THEN Num(2)
    ELSE IF FLeq(Num(91), diferencia) /\ FLeq(diferencia, Num(94)) THEN Frac(15, 10)
    ELSE IF FLeq(Num(95), diferencia) /\ FLeq(diferencia, Num(120)) THEN Frac(3375, 1000)
    ELSE Frac(5, 10)

\* The lot appended for a level at index >= 9 (the else branch), from the
\* absolute distance to the initial price.
lote_por_diferencia(diferencia) ==
    IF FLeq(Num(0), diferencia) /\ FLeq(diferencia, Num(15)) THEN Frac(5, 10)
    ELSE IF diferencia = Num(20) THEN Num(0)
    ELSE IF diferencia \in {Num(25), Num(30)} THEN Num(2)
    ELSE IF FLeq(Num(35), diferencia) /\ FLeq(diferencia, Num(55))
         THEN IF diferencia = Num(55) THEN Num(0) ELSE Frac(625, 1000)
    ELSE IF diferencia = Num(60) THEN Num(6)
    ELSE IF FLeq(Num(65), diferencia) /\ FLeq(diferencia, Num(90)) THEN Num(2)
    ELSE IF FLeq(Num(91), diferencia) /\ FLeq(diferencia, Num(94)) THEN Frac(15, 10)
    ELSE IF FLeq(Num(95), diferencia) /\ FLeq(diferencia, Num(120)) THEN Frac(3375, 1000)
    ELSE Frac(5, 10)

\* Index 5 with Semi Conservadora (7) put in the group of 2..6.
lote_sexta_compra_semi_agrupada(opcion) ==
    IF opcion = 1 THEN <<Num(0)>>
    ELSE IF opcion \in {2, 3, 4, 5, 6, 7} THEN <<FMul(Frac(24, 10), Frac(13, 10))>>
    ELSE << >>

\* Index 5, "la sexta compra" (lines 49-55): what is appended to lotes, a
\* sequence of one lot, or of none when no branch matches opcion.
lote_sexta_compra(opcion) ==
    IF opcion = 1 THEN <<Num(0)>>
    ELSE IF opcion \in {2, 3, 4, 5, 6} THEN <<FMul(Frac(24, 10), Frac(13, 10))>>
    ELSE IF opcion = 7 THEN <<Num(2)>>
    ELSE << >>

\* Index 7 with the Semi Conservadora (7) branch missing.
lote_octava_compra_sin_semi(opcion) ==
    IF opcion = 1 THEN <<Num(0)>>
    ELSE IF opcion = 2 THEN <<Num(3)>>
    ELSE IF opcion \in {3, 4, 5, 6} THEN <<Num(3)>>
    ELSE << >>

\* Index 7, "la octava compra" (lines 58-64).
lote_octava_compra(opcion) ==
    IF opcion = 1 \/ opcion = 7 THEN <<Num(0)>>
    ELSE IF opcion = 2 THEN <<Num(3)>>
    ELSE IF opcion \in {3, 4, 5, 6} THEN <<Num(3)>>
    ELSE << >>

\* The legacy rule: every level sized by its distance alone.
lote_en_indice_solo_diferencia(i, precio, precio_inicial, opcion) ==
    <<lote_por_diferencia(FAbs(FSub(precio_inicial, precio)))>>

\* What one pass of the loop body appends to lotes for the level at
\* (0-based) index i.
lote_en_indice(i, precio, precio_inicial, opcion) ==
    IF i = 0 THEN <<Num(1)>>
    ELSE IF i = 1 THEN <<Frac(14, 10)>>
    ELSE IF i = 2 THEN <<Frac(24, 10)>>
    ELSE IF i = 3 THEN <<Num(2)>>
    ELSE IF i = 4 THEN <<FMul(Frac(24, 10), Frac(13, 10))>>
    ELSE IF i = 5 THEN lote_sexta_compra(opcion)
    ELSE IF i = 6 THEN <<FMul(Num(3), Frac(15, 10))>>
    ELSE IF i = 7 THEN lote_octava_compra(opcion)
    ELSE IF i = 8 THEN <<FMul(Num(4), Frac(15, 10))>>
    ELSE <<lote_por_diferencia(FAbs(FSub(precio_inicial, precio)))>>

\* The list lotes after the loop of lines 38-89, before the adjustment.
RECURSIVE lotes_sin_ajustar(_, _, _)
lotes_sin_ajustar(precio_inicial, precios, opcion) ==
    IF Len(precios) = 0 THEN << >>
    ELSE lotes_sin_ajustar(precio_inicial, SubSeq(precios, 1, Len(precios) - 1), opcion)
         \o lote_en_indice(Len(precios) - 1, precios[Len(precios)], precio_inicial, opcion)

\* The adjustment of one lot by the selected option (lines 92-101).
ajustar(lote, opcion) ==
    IF opcion = 3 THEN FDiv(lote, DIVISOR_CONSERVADOR)
    ELSE IF opcion = 4 THEN FDiv(FMul(lote, Frac(125, 100)), DIVISOR_MUY_AGRESIVA)
    ELSE IF opcion = 5 THEN FDiv(FMul(lote, Frac(125, 100)), DIVISOR_SEMI_AGRESIVA)
    ELSE IF opcion = 6
         THEN FDiv(FMul(FMul(lote, Frac(125, 100)), Frac(12, 10)), DIVISOR_MUY_AGRESIVA)
    ELSE FDiv(lote, DIVISOR_LOTE)

asignar_lotes(precio_inicial, precios, opcion) ==
    LET lotes == lotes_sin_ajustar(precio_inicial, precios, opcion)
    IN  [k \in 1..Len(lotes) |-> ajustar(lotes[k], opcion)]

----------------------------------------------------------------------------
(* The DataFrame: a record of its columns, each a sequence of rows;        *)
(* `columns` lists the columns that exist.                                 *)

NoDataFrame ==
    [columns |-> << >>, Precio |-> << >>, Lotes |-> << >>, LotesAcumulados |-> << >>,
     BreakEven |-> << >>, Flotante |-> << >>, PuntosDeSalida |-> << >>,
     AumentoNecesario |-> << >>, GananciaAlRegresar |-> << >>]

\* pd.DataFrame({...}) raises ValueError when the two lists differ in length.
crear_dataframe(precios, lotes) ==
    IF Len(precios) # Len(lotes) THEN Raise("ValueError")
    ELSE [err |-> "",
          val |-> [NoDataFrame EXCEPT !.columns = <<"Precio", "Lotes">>,
                                      !.Precio = precios, !.Lotes = lotes]]

Escalar(xs, c) == [i \in 1..Len(xs) |-> FMul(xs[i], c)]

calcular_acumulados(df, precio_inicial, direccion) ==
    LET n    == Len(df.Precio)
        unid == Num(LOTES_A_UNIDADES)
        acum == cumsum(df.Lotes)
        be   == SeriesDiv(cumsum(Escalar(SeriesMul(df.Precio, df.Lotes), unid)),
                         Escalar(acum, unid))
        flot == Escalar(SeriesMul(SeriesSub(df.Precio, be), acum), unid)
        sal  == IF direccion = "subida"
                THEN SeriesSub(be, df.Precio)
                ELSE [i \in 1..n |-> FAbs(FSub(df.Precio[i], be[i]))]
        aum  == [i \in 1..n |->
                   FSub(FAdd(be[i], FDiv(Num(5000), FMul(acum[i], unid))), df.Precio[i])]
        gan  == IF direccion = "subida"
                THEN [i \in 1..n |->
                        FMul(FMul(FMul(FSub(df.Precio[i], precio_inicial), acum[i]), unid),
                             Num(-1))]
                ELSE [i \in 1..n |->
                        FMul(FMul(FSub(precio_inicial, df.Precio[i]), acum[i]), unid)]
    IN  [df EXCEPT !.columns = df.columns \o <<"Lotes Acumulados", "Break Even", "Flotante",
                                               "Puntos de salida",
                                               "Aumento Necesario para $5000",
                                               "Ganancia al Regresar al Precio Inicial">>,
                   !.LotesAcumulados = acum,
                   !.BreakEven = be,
                   !.Flotante = flot,
                   !.PuntosDeSalida = sal,
                   !.AumentoNecesario = replace_inf_nan(aum),
                   !.GananciaAlRegresar = replace_inf_nan(gan)]

\* Lines 192-199 of main: every column rounded for display, in place.
RoundCol(xs, k) == [i \in 1..Len(xs) |-> FRound(xs[i], k)]

redondear(df) ==
    [df EXCEPT !.Precio = RoundCol(df.Precio, 2),
               !.Lotes = RoundCol(df.Lotes, 4),
               !.LotesAcumulados = RoundCol(df.LotesAcumulados, 4),
               !.BreakEven = RoundCol(df.BreakEven, 2),
               !.Flotante = RoundCol(df.Flotante, 2),
               !.PuntosDeSalida = RoundCol(df.PuntosDeSalida, 2),
               !.AumentoNecesario = RoundCol(df.AumentoNecesario, 2),
               !.GananciaAlRegresar = RoundCol(df.GananciaAlRegresar, 2)]

\* A validation that accepts every frame.
validar_precio_final_siempre(df, precio_esperado) == TRUE

\* True when the last price of the frame equals the expected one.
validar_precio_final(df, precio_esperado) ==
    df.Precio[Len(df.Precio)] = precio_esperado

----------------------------------------------------------------------------
(* Bounds of the model.                                                    *)

\* Spans and steps 1..MaxTotal, 1..MaxPaso are tried beside the program's.
MaxTotal == 10
MaxPaso == 3
\* Probed distances of a level at index >= 9 run over 0, 1/2, 1, ..., MaxDistancia.
MaxDistancia == 125
\* A probed ladder has 9..9+MaxRelleno levels before the probed one.
MaxRelleno == 1
\* Frames of at most MaxFilas rows are filled with arbitrary lots.
MaxFilas == 3
\* The metrics are evaluated on ladders whose prices stay below this bound
\* (the products price*lot*100 must fit TLC's 32-bit integers).
MaxPrecioMetricas == 300

\* Initial prices: the form's minimum, a value with a third decimal, round
\* values, and the form's default.
PreciosIniciales == {Num(1), Frac(1005, 1000), Num(45), Num(2700)}

Direcciones == {"bajada", "subida"}
\* A direction value that is neither of the two the code names.
DireccionesLlamada == Direcciones \cup {"lateral"}

\* The form's option codes (line 171) and, for direct calls, codes around them.
OpcionesFormulario == {3, 7, 1, 5, 2, 4, 6}
OpcionesLlamada == 0..8

\* (total_unidades, paso): the program's constants, then spans that are not
\* a multiple of the step, a ladder longer than nine levels, and float-typed
\* values.
ConfiguracionPrograma == <<PyInt(TOTAL_UNIDADES), PyInt(PASO)>>
ConfiguracionesVariantes ==
    {<<PyInt(100), PyInt(PASO)>>, <<PyInt(60), PyInt(6)>>,
     <<PyInt(30), PyInt(PASO)>>, <<PyInt(45), PyInt(5)>>,
     <<PyFloat(TOTAL_UNIDADES, 1), PyFloat(PASO, 1)>>}
ConfiguracionesLlamada ==
    {ConfiguracionPrograma} \cup ConfiguracionesVariantes
    \cup {<<PyInt(t), PyInt(s)>> : t \in 1..MaxTotal, s \in 1..MaxPaso}
    \cup {<<PyFloat(15, 1), PyFloat(15, 2)>>, <<PyInt(TOTAL_UNIDADES), PyFloat(PASO, 1)>>}

LotesDePrueba == {Num(0), Frac(1, 2), Num(1)}

RECURSIVE MaxAbs(_)
MaxAbs(xs) ==
    IF Len(xs) = 0 THEN 0
    ELSE LET m == MaxAbs(Tail(xs))
             a == (Abs(xs[1][1]) \div xs[1][2]) + 1
         IN  IF a > m THEN a ELSE m

----------------------------------------------------------------------------
(* State.                                                                  *)

VARIABLES
    entry,            \* "main": a run of main(); "call": the functions called directly
    pc,               \* position in the run
    precio_inicial,   \* the arguments / form inputs in use
    direccion,
    opcion,
    total_unidades,
    paso,
    precios,          \* list returned by generar_precios
    lotes,            \* list returned by asignar_lotes
    df,               \* the DataFrame
    salida            \* what was shown or raised: "", an exception name,
                      \* "error_longitud", "error_precio_final", "tabla"

vars == <<entry, pc, precio_inicial, direccion, opcion, total_unidades, paso,
          precios, lotes, df, salida>>

InitMain ==
    /\ entry = "main"
    /\ pc = "form"
    /\ precio_inicial \in {p \in PreciosIniciales : FLeq(Num(1), p) /\ FLeq(p, Num(MaxPrecioMetricas - 2 * TOTAL_UNIDADES))}
    /\ direccion \in Direcciones
    /\ opcion \in OpcionesFormulario
    /\ \E c \in {ConfiguracionPrograma} \cup ConfiguracionesVariantes :
          total_unidades = c[1] /\ paso = c[2]
    /\ precios = << >>
    /\ lotes = << >>
    /\ df = NoDataFrame
    /\ salida = ""

InitCall ==
    /\ entry = "call"
    /\ pc = "idle"
    /\ precio_inicial = Num(0)
    /\ direccion = ""
    /\ opcion = 0
    /\ total_unidades = PyInt(0)
    /\ paso = PyInt(0)
    /\ precios = << >>
    /\ lotes = << >>
    /\ df = NoDataFrame
    /\ salida = ""

Init == InitMain \/ InitCall

----------------------------------------------------------------------------
(* main(), lines 174-210: the body run when the button is pressed.         *)

\* line 176
MainGenerarPrecios ==
    /\ entry = "main" /\ pc = "form"
    /\ LET r == generar_precios(precio_inicial, total_unidades, paso, direccion)
       IN  /\ precios' = r.val
           /\ salida' = r.err
           /\ pc' = IF r.err = "" THEN "generated" ELSE "crashed"
    /\ UNCHANGED <<entry, precio_inicial, direccion, opcion, total_unidades, paso, lotes, df>>

\* line 179
MainAsignarLotes ==
    /\ entry = "main" /\ pc = "generated"
    /\ lotes' = asignar_lotes(precio_inicial, precios, opcion)
    /\ pc' = "assigned"
    /\ UNCHANGED <<entry, precio_inicial, direccion, opcion, total_unidades, paso, precios, df,
                   salida>>

\* lines 182-186
MainVerificarLongitud ==
    /\ entry = "main" /\ pc = "assigned"
    /\ IF Len(precios) # Len(lotes)
       THEN /\ salida' = "error_longitud"
            /\ pc' = "done"
            /\ df' = df
       ELSE /\ df' = crear_dataframe(precios, lotes).val
            /\ pc' = "framed"
            /\ salida' = salida
    /\ UNCHANGED <<entry, precio_inicial, direccion, opcion, total_unidades, paso, precios,
                   lotes>>

\* main() with the call of line 189 left out.
MainCalcularAcumulados_omitido ==
    /\ entry = "main" /\ pc = "framed"
    /\ pc' = "computed"
    /\ UNCHANGED <<entry, precio_inicial, direccion, opcion, total_unidades, paso, precios,
                   lotes, df, salida>>

\* line 189
MainCalcularAcumulados ==
    /\ entry = "main" /\ pc = "framed"
    /\ df' = calcular_acumulados(df, precio_inicial, direccion)
    /\ pc' = "computed"
    /\ UNCHANGED <<entry, precio_inicial, direccion, opcion, total_unidades, paso, precios,
                   lotes, salida>>

\* lines 192-199
MainRedondear ==
    /\ entry = "main" /\ pc = "computed"
    /\ df' = redondear(df)
    /\ pc' = "rounded"
    /\ UNCHANGED <<entry, precio_inicial, direccion, opcion, total_unidades, paso, precios,
                   lotes, salida>>

\* line 202
precio_esperado ==
    IF direccion = "subida" THEN FAdd(precio_inicial, total_unidades.v)
    ELSE FSub(precio_inicial, total_unidades.v)

\* lines 205-207: the validation; st.error is shown when it fails.
MainValidarPrecioFinal ==
    /\ entry = "main" /\ pc = "rounded"
    /\ IF validar_precio_final(df, precio_esperado)
       THEN pc' = "validated" /\ salida' = salida
       ELSE pc' = "done" /\ salida' = "error_precio_final"
    /\ UNCHANGED <<entry, precio_inicial, direccion, opcion, total_unidades, paso, precios,
                   lotes, df>>

\* lines 208-210: st.dataframe(df)
MainMostrarTabla ==
    /\ entry = "main" /\ pc = "validated"
    /\ salida' = "tabla"
    /\ pc' = "done"
    /\ UNCHANGED <<entry, precio_inicial, direccion, opcion, total_unidades, paso, precios,
                   lotes, df>>

NextMain ==
    \/ MainGenerarPrecios
    \/ MainAsignarLotes
    \/ MainVerificarLongitud
    \/ MainCalcularAcumulados
    \/ MainRedondear
    \/ MainValidarPrecioFinal
    \/ MainMostrarTabla

----------------------------------------------------------------------------
(* The functions called directly, with arguments from their whole          *)
(* (bounded) domains.                                                      *)

\* generar_precios(p, t, s, d)
CallGenerarPrecios ==
    /\ entry = "call" /\ pc = "idle"
    /\ \E p \in PreciosIniciales, c \in ConfiguracionesLlamada, d \in DireccionesLlamada :
          LET r == generar_precios(p, c[1], c[2], d)
          IN  /\ precio_inicial' = p
              /\ total_unidades' = c[1]
              /\ paso' = c[2]
              /\ direccion' = d
              /\ precios' = r.val
              /\ salida' = r.err
              /\ pc' = IF r.err = "" THEN "generated" ELSE "raised"
    /\ UNCHANGED <<entry, opcion, lotes, df>>

\* asignar_lotes(precio_inicial, precios, o) on a generated ladder
CallAsignarLotes ==
    /\ entry = "call" /\ pc = "generated"
    /\ \E o \in OpcionesLlamada :
          /\ opcion' = o
          /\ lotes' = asignar_lotes(precio_inicial, precios, o)
    /\ pc' = "assigned"
    /\ UNCHANGED <<entry, precio_inicial, direccion, total_unidades, paso, precios, df, salida>>

\* A list of prices whose last level, at index >= 9, lies at distance h/2
\* from the initial price.
EscaleraSonda(p, relleno, h, d) ==
    [k \in 1..(9 + relleno) |-> p]
    \o <<IF d = "subida" THEN FAdd(p, Frac(h, 2)) ELSE FSub(p, Frac(h, 2))>>

\* asignar_lotes(p, precios, o) on such a list
CallAsignarLotesSonda ==
    /\ entry = "call" /\ pc = "idle"
    /\ \E p \in {Num(1), Num(2700)}, o \in OpcionesLlamada, d \in Direcciones,
          relleno \in 0..MaxRelleno, h \in 0..(2 * MaxDistancia) :
          /\ precio_inicial' = p
          /\ opcion' = o
          /\ direccion' = d
          /\ precios' = EscaleraSonda(p, relleno, h, d)
          /\ lotes' = asignar_lotes(p, EscaleraSonda(p, relleno, h, d), o)
    /\ pc' = "assigned"
    /\ UNCHANGED <<entry, total_unidades, paso, df, salida>>

\* crear_dataframe(precios, lotes), then calcular_acumulados(df, precio_inicial, d)
CallCalcularAcumulados ==
    /\ entry = "call" /\ pc = "assigned"
    /\ MaxAbs(precios) <= MaxPrecioMetricas
    /\ \E d \in DireccionesLlamada :
          LET r == crear_dataframe(precios, lotes)
          IN  /\ direccion' = d
              /\ salida' = r.err
              /\ df' = IF r.err = "" THEN calcular_acumulados(r.val, precio_inicial, d)
                       ELSE df
              /\ pc' = IF r.err = "" THEN "computed" ELSE "frame_error"
    /\ UNCHANGED <<entry, precio_inicial, opcion, total_unidades, paso, precios, lotes>>

\* calcular_acumulados on a frame of a short ladder with arbitrary lots
CallCalcularAcumuladosTabla ==
    /\ entry = "call" /\ pc = "generated"
    /\ Len(precios) <= MaxFilas
    /\ MaxAbs(precios) <= MaxPrecioMetricas
    /\ \E ls \in [1..Len(precios) -> LotesDePrueba] :
          /\ lotes' = ls
          /\ df' = calcular_acumulados(crear_dataframe(precios, ls).val, precio_inicial,
                                       direccion)
    /\ pc' = "computed"
    /\ UNCHANGED <<entry, precio_inicial, direccion, opcion, total_unidades, paso, precios,
                   salida>>

NextCall ==
    \/ CallGenerarPrecios
    \/ CallAsignarLotes
    \/ CallAsignarLotesSonda
    \/ CallCalcularAcumulados
    \/ CallCalcularAcumuladosTabla

Next == NextMain \/ NextCall

Spec == Init /\ [][Next]_vars

----------------------------------------------------------------------------
(* Properties.                                                             *)

\* The metrics columns exist: calcular_acumulados has run on the frame.
MetricasCalculadas == Len(df.columns) > 2

\* asignar_lotes has just returned (a run of main, or a direct call).
Asignado == pc = "assigned"

\* A direct call of generar_precios has just returned or raised.
Generado == entry = "call" /\ pc \in {"generated", "raised"}

\* The specification's tables, written out independently of the code.
TablaIndice(o, i) ==
    IF i = 0 THEN Num(1)
    ELSE IF i = 1 THEN Frac(14, 10)
    ELSE IF i = 2 THEN Frac(24, 10)
    ELSE IF i = 3 THEN Num(2)
    ELSE IF i = 4 THEN Frac(312, 100)
    ELSE IF i = 5 THEN (IF o = 1 THEN Num(0) ELSE IF o = 7 THEN Num(2) ELSE Frac(312, 100))
    ELSE IF i = 6 THEN Frac(45, 10)
    ELSE IF i = 7 THEN (IF o \in {1, 7} THEN Num(0) ELSE Num(3))
    ELSE Num(6)

Escala(o, x) ==
    IF o = 3 THEN FMul(x, Frac(100, 211))
    ELSE IF o = 4 THEN FMul(x, Frac(125, 160))
    ELSE IF o = 5 THEN FMul(x, Frac(125, 225))
    ELSE IF o = 6 THEN FMul(x, Frac(150, 160))
    ELSE FMul(x, Frac(10000, 15932))

Entre(a, d, b) == FLeq(Num(a), d) /\ FLeq(d, Num(b))

\* The distance table with every bucket a closed interval as listed, and
\* 0.5 for every distance in no listed bucket.
TablaDistanciaCerrada(d) ==
    IF Entre(0, d, 15) THEN Frac(1, 2)
    ELSE IF d = Num(20) THEN Num(0)
    ELSE IF d = Num(25) \/ d = Num(30) THEN Num(2)
    ELSE IF Entre(35, d, 54) THEN Frac(5, 8)
    ELSE IF d = Num(55) THEN Num(0)
    ELSE IF d = Num(60) THEN Num(6)
    ELSE IF Entre(65, d, 90) THEN Num(2)
    ELSE IF Entre(91, d, 94) THEN Frac(3, 2)
    ELSE IF Entre(95, d, 120) THEN Frac(27, 8)
    ELSE Frac(1, 2)

\* The same table with the 0.625 bucket running up to, not including, 55.
TablaDistanciaAbierta55(d) ==
    IF Entre(35, d, 55) /\ d # Num(55) THEN Frac(5, 8)
    ELSE TablaDistanciaCerrada(d)

Distancia(k) == FAbs(FSub(precio_inicial, precios[k]))

RECURSIVE SumaHasta(_, _)
SumaHasta(xs, i) == IF i = 0 THEN Num(0) ELSE FAdd(xs[i], SumaHasta(xs, i - 1))

----------------------------------------------------------------------------
\* C1: at every level whose cumulative lot is 0, calcular_acumulados leaves
\* Break Even = 0, Flotante = 0 and Aumento Necesario para $5000 = 0 (no NaN
\* or infinity in these columns).
C1_AcumuladoCeroDaCeros ==
    pc = "computed" =>
        \A i \in 1..Len(df.LotesAcumulados) :
            df.LotesAcumulados[i] = Num(0) =>
                /\ df.BreakEven[i] = Num(0)
                /\ df.Flotante[i] = Num(0)
                /\ df.AumentoNecesario[i] = Num(0)

----------------------------------------------------------------------------
\* C2: for each of the seven options and each index 0..8 the lot appended
\* before the adjustment is the index table's value; option 1 (Neutra) has
\* lots exactly 0 at indices 5 and 7 before and after the adjustment, and
\* options 3 and 7 differ at index 5.
C2_TablaPorIndice ==
    (Asignado /\ opcion \in OpcionesFormulario) =>
        LET base == lotes_sin_ajustar(precio_inicial, precios, opcion)
        IN  /\ \A i \in 0..8 : i < Len(precios) => base[i + 1] = TablaIndice(opcion, i)
            /\ (opcion = 1 /\ Len(precios) >= 6) => lotes[6] = Num(0)
            /\ (opcion = 1 /\ Len(precios) >= 8) => lotes[8] = Num(0)
            /\ (opcion = 7 /\ Len(precios) >= 6) =>
                   base[6] # lotes_sin_ajustar(precio_inicial, precios, 3)[6]

C2_Witness ==
    Asignado /\ opcion = 7 /\ Len(precios) = 9 /\ lotes[6] = Escala(7, Num(2))

----------------------------------------------------------------------------
\* Scenario A: initial price 2700, span 120, step 15, falling.
EscenarioA ==
    /\ Asignado
    /\ precio_inicial = Num(2700)
    /\ total_unidades = PyInt(120) /\ paso = PyInt(15)
    /\ direccion = "bajada"

BaselineA ==
    [k \in 1..9 |->
        Escala(1, <<Frac(1, 2), Frac(1, 2), Num(2), Frac(5, 8), Num(6), Num(2), Num(2),
                    Frac(27, 8), Frac(27, 8)>>[k])]

----------------------------------------------------------------------------
\* C4: an option outside the seven recognised ones, or a direction outside
\* {subida, bajada}, is rejected: no lot list and no metrics table is
\* returned for it.
C4_EnumInvalidoRechazado ==
    /\ Asignado => opcion \in OpcionesFormulario
    /\ pc = "computed" => direccion \in Direcciones

----------------------------------------------------------------------------
\* The length check, respectively the endpoint check, of a run of main has
\* just been made.
LongitudVerificada == entry = "main" /\ (pc = "framed" \/ salida = "error_longitud")
PrecioFinalVerificado ==
    entry = "main" /\ (pc = "validated" \/ salida = "error_precio_final")

\* C5 (as claimed): in a run of main the length check and the endpoint
\* check are both made before the metrics are computed.
C5_ValidacionAntesDeMetricas ==
    (LongitudVerificada \/ PrecioFinalVerificado) => ~MetricasCalculadas

\* C5 (amended): in a run of main the length check runs before
\* calcular_acumulados (a length error leaves no metrics, and metrics exist
\* only for lists of equal length), while the endpoint check runs after
\* calcular_acumulados and the rounding, and before any table is shown.
C5_OrdenDeValidaciones ==
    entry = "main" =>
        /\ LongitudVerificada => ~MetricasCalculadas
        /\ MetricasCalculadas => Len(precios) = Len(lotes)
        /\ pc = "rounded" => (MetricasCalculadas /\ salida = "")
        /\ PrecioFinalVerificado => MetricasCalculadas
        /\ salida = "tabla" => (MetricasCalculadas /\ pc = "done")

C5_Witness ==
    /\ PrecioFinalVerificado /\ salida = "error_precio_final" /\ MetricasCalculadas
    /\ total_unidades = PyInt(TOTAL_UNIDADES) /\ paso = PyInt(PASO)

----------------------------------------------------------------------------
UltimoNivelEsperado ==
    Len(precios) > 0 /\ precios[Len(precios)] = precio_esperado

\* C6: a run of main whose last generated level differs from
\* precio_inicial -/+ total_unidades never shows the table and ends with an
\* error; the table is shown only when the last level is the expected one.
C6_TablaSoloConPrecioFinal ==
    entry = "main" =>
        /\ salida = "tabla" => UltimoNivelEsperado
        /\ (pc \in {"done", "crashed"} /\ ~UltimoNivelEsperado)
               => salida \in {"error_precio_final", "error_longitud", "TypeError",
                              "ValueError", "ZeroDivisionError"}

C6_Witness ==
    /\ entry = "main" /\ pc = "done"
    /\ total_unidades = PyInt(100) /\ paso = PyInt(15)
    /\ Len(precios) = 7
    /\ ~UltimoNivelEsperado
    /\ salida = "error_precio_final"

----------------------------------------------------------------------------
\* C7: for each of the seven options, after asignar_lotes and
\* calcular_acumulados, Lotes Acumulados[i] is the sum of Lotes[0..i], every
\* lot is >= 0 and Lotes Acumulados is non-decreasing.
C7_AcumuladoEsSumaCorrida ==
    (pc = "computed" /\ opcion \in OpcionesFormulario) =>
        /\ Len(df.LotesAcumulados) = Len(df.Lotes)
        /\ df.Lotes = lotes
        /\ \A i \in 1..Len(df.Lotes) :
              /\ df.LotesAcumulados[i] = SumaHasta(df.Lotes, i)
              /\ FLeq(Num(0), df.Lotes[i])
              /\ i > 1 => FLeq(df.LotesAcumulados[i - 1], df.LotesAcumulados[i])

C7_Witness ==
    /\ pc = "computed" /\ opcion = 1 /\ Len(df.Lotes) >= 10
    /\ df.LotesAcumulados[6] = df.LotesAcumulados[5]
    /\ df.LotesAcumulados[10] # df.LotesAcumulados[9]

----------------------------------------------------------------------------
MultiploExacto == FDiv(total_unidades.v, paso.v)[2] = 1

TiposEnteros == total_unidades.ty = "int" /\ paso.ty = "int"

\* level i of the ladder, from the claim's formula
Nivel(i) ==
    Frac(precio_inicial[1] * paso.v[2]
           + (IF direccion = "subida" THEN 1 ELSE -1) * i * paso.v[1] * precio_inicial[2],
         precio_inicial[2] * paso.v[2])

EscaleraCorrecta ==
    IF direccion \in Direcciones
    THEN /\ pc = "generated" /\ salida = ""
         /\ Len(precios) = FDiv(total_unidades.v, paso.v)[1] + 1
         /\ \A k \in 1..Len(precios) : precios[k] = Nivel(k - 1)
         /\ \A k \in 2..Len(precios) :
               IF direccion = "subida"
               THEN FSub(precios[k], precios[k - 1]) = paso.v
               ELSE FSub(precios[k - 1], precios[k]) = paso.v
    ELSE pc = "raised" /\ salida = "ValueError" /\ precios = << >>

\* C8 (as claimed): for every positive step and every positive span that is
\* an exact multiple of it, generar_precios returns span/step + 1 levels,
\* level i at precio_inicial -/+ i*step; any other direction raises.
C8_EscaleraParaTodoPaso ==
    (Generado /\ MultiploExacto) => EscaleraCorrecta

\* C8 (amended): the same for every positive int step and int span (the
\* types of PASO and TOTAL_UNIDADES); with a float step or span and a valid
\* direction the call raises TypeError and returns no list.
C8_EscaleraParaPasoEntero ==
    /\ (Generado /\ MultiploExacto /\ TiposEnteros) => EscaleraCorrecta
    /\ (Generado /\ ~TiposEnteros /\ direccion \in Direcciones) =>
           (salida = "TypeError" /\ precios = << >>)

C8_Witness ==
    /\ entry = "call" /\ pc = "generated"
    /\ total_unidades = PyInt(120) /\ paso = PyInt(15)
    /\ direccion = "subida" /\ precio_inicial = Num(2700)
    /\ Len(precios) = 9 /\ precios[9] = Num(2820)

----------------------------------------------------------------------------
\* C9 (as claimed): every level at index >= 9 gets, before the adjustment,
\* the lot of the closed-bucket distance table, with 0.5 for every distance
\* in no listed bucket, the non-integer ones between 54 and 55 included.
C9_TablaCerrada ==
    (Asignado /\ opcion \in OpcionesFormulario) =>
        \A k \in 10..Len(precios) :
            lotes[k] = Escala(opcion, TablaDistanciaCerrada(Distancia(k)))

\* C9 (amended): the same table, except that the 0.625 bucket is
\* 35 <= d < 55: a non-integer distance between 54 and 55 gets 0.625.
C9_TablaAbiertaEn55 ==
    (Asignado /\ opcion \in OpcionesFormulario) =>
        \A k \in 10..Len(precios) :
            lotes[k] = Escala(opcion, TablaDistanciaAbierta55(Distancia(k)))

C9_Witness ==
    /\ Asignado /\ opcion = 3 /\ Len(precios) = 10
    /\ Distancia(10) = Frac(109, 2)
    /\ lotes[10] = Escala(3, Frac(5, 8))

----------------------------------------------------------------------------
\* The number of levels of a ladder of n levels for which an unrecognised
\* option appends no lot (indices 5 and 7).
Omitidos(n) == (IF n >= 6 THEN 1 ELSE 0) + (IF n >= 8 THEN 1 ELSE 0)

\* C10: asignar_lotes returns one lot per level, lot k for level k, for the
\* option codes 1..7, so main never reports a length mismatch; for any other
\* code and a ladder of 6 or more levels nothing is appended at index 5 nor
\* at index 7, the list is shorter than the ladder and the later lots sit on
\* earlier levels.
C10_UnLotePorNivel ==
    /\ (Asignado /\ opcion \in OpcionesFormulario) =>
           /\ Len(lotes) = Len(precios)
           /\ \A k \in 1..Len(precios) :
                 lotes[k] = Escala(opcion,
                                   IF k <= 9 THEN TablaIndice(opcion, k - 1)
                                   ELSE TablaDistanciaAbierta55(Distancia(k)))
    /\ entry = "main" => salida # "error_longitud"
    /\ (Asignado /\ opcion \notin OpcionesFormulario) =>
           /\ Len(lotes) = Len(precios) - Omitidos(Len(precios))
           /\ Len(precios) >= 6 => Len(lotes) < Len(precios)
           /\ Len(precios) >= 7 => lotes[6] = Escala(opcion, TablaIndice(2, 6))
           /\ Len(precios) >= 9 => lotes[7] = Escala(opcion, TablaIndice(2, 8))

C10_Witness ==
    /\ Asignado /\ opcion = 8 /\ Len(precios) = 9 /\ Len(lotes) = 7
    /\ lotes[7] = Escala(8, Num(6))

====
